---- MODULE Spec2Model ----
(***************************************************************************)
(* A model of the fe-workflow editor extension: the JiraService polling    *)
(* watcher (startNotificationPolling, stopNotificationPolling,             *)
(* updateKnownTasks, detectNewTasks, getCredentials, getMyTasks) and the   *)
(* JiraTasksProvider categorization (categorizeTask, getChildren).         *)
(*                                                                         *)
(* The extension host is single-threaded: one action of the model is one   *)
(* macrotask (a command, a timer firing, a user answering a prompt, an     *)
(* HTTP response arriving) together with the microtasks it schedules.      *)
(***************************************************************************)
EXTENDS Integers, Sequences, FiniteSets, Bags, TLC

\* ---------------------------------------------------------------- bounds
NumIds == 2        \* task identifiers the tracker can return
MaxInFlight == 2   \* asynchronous operations pending at once
MaxTimers == 2     \* interval timers the runtime holds at once
MaxTasks == 3      \* tasks in the list the tree view categorizes
MaxDate == 2       \* release dates, as day numbers 1..MaxDate
MaxParts == 2      \* pieces a status text handed to categorizeTask is made of
MaxReports == 2    \* times an identifier is counted as passed to the callback

Ids == 1..NumIds

Range(s) == {s[i] : i \in 1..Len(s)}

\* The lists without repetition of the elements of S.
RECURSIVE Lists(_)
Lists(S) == {<<>>} \cup UNION {{<<x>> \o t : t \in Lists(S \ {x})} : x \in S}

\* The lists of task identifiers a fetch can return: the tracker's issues in
\* any order, or one issue twice.
Responses == Lists(Ids) \cup {<<x, x>> : x \in Ids}

One(x) == SetToBag({x})

\* ----------------------------------------------------------------- state
VARIABLES
    configured,       \* the settings hold baseUrl, username and apiToken
    credentials,      \* JiraService.credentials is set (cached)
    knownTaskIds,     \* JiraService.knownTaskIds
    pollingInterval,  \* JiraService.pollingInterval: 0 is undefined, else a timer handle
    timers,           \* the interval timers the runtime holds active
    pending,          \* the bag of asynchronous operations in flight (seed fetches, ticks)
    stopKnown,        \* history: knownTaskIds at the latest stopNotificationPolling
    last,             \* history: the latest step taken
    reported,         \* history, kept where the callback's lifetime is specified:
                      \* the times each identifier was passed to onNewTasks
    fetched,          \* the task list getMyTasks returned to the tree view
    tree,             \* the tree view: the main groups getChildren() returned for the root
    categorizing,     \* the task handed to categorizeTask
    categorized,      \* what categorizeTask returned for it
    notificationsEnabled,  \* the setting jiraWorkflow.notificationsEnabled
    activation,       \* the extension: "inactive", "active" (its commands are
                      \* registered) or "deactivated"
    listening         \* the configuration change listener is registered

watcherVars == <<configured, credentials, knownTaskIds, pollingInterval, timers, pending,
                 stopKnown, last, reported>>

treeVars == <<fetched, tree>>

catVars == <<categorizing, categorized>>

notifyVars == <<notificationsEnabled, activation, listening>>

vars == <<watcherVars, treeVars, catVars, notifyVars>>

\* The record of a step: op names the step, resp is the fetch response that
\* arrived in it, calls the lists the step passed to the onNewTasks callback.
NoEvent == [op |-> "init", resp |-> <<>>, calls |-> <<>>]

Event(op) == [NoEvent EXCEPT !.op = op]

\* The times identifier x occurs in the lists of calls.
RECURSIVE Occurrences(_, _)
Occurrences(x, calls) ==
    IF calls = <<>> THEN 0
    ELSE Cardinality({i \in 1..Len(Head(calls)) : Head(calls)[i] = x})
            + Occurrences(x, Tail(calls))

Min(a, b) == IF a <= b THEN a ELSE b

\* The history of the callback where it is not kept, and at its beginning.
NotCounted == <<>>

NoneReported == [x \in Ids |-> 0]

\* The step taken is recorded, and what it passed to the callback counted. (No
\* step of the service touches the tree view or the extension's registrations.)
Log(e) ==
    /\ last' = e
    /\ reported' = IF DOMAIN reported = {} THEN NotCounted
                   ELSE [x \in Ids |->
                            Min(MaxReports, reported[x] + Occurrences(x, e.calls))]
    /\ UNCHANGED <<treeVars, catVars, notifyVars>>

\* ------------------------------------------------------ JiraService code
\* An update that replaces the set by the identifiers of the list.
updateKnownTasksReplaces(tasks, known) == Range(tasks)

\* updateKnownTasks: every identifier of the list is added to the set.
updateKnownTasks(tasks, known) == known \cup Range(tasks)

\* detectNewTasks: one pass over the list; a task whose identifier is not in
\* the set is pushed to newTasks and its identifier added at once.
RECURSIVE detectLoop(_, _, _)
detectLoop(tasks, known, newTasks) ==
    IF tasks = <<>> THEN [newTasks |-> newTasks, known |-> known]
    ELSE IF Head(tasks) \notin known
         THEN detectLoop(Tail(tasks), known \cup {Head(tasks)}, Append(newTasks, Head(tasks)))
         ELSE detectLoop(Tail(tasks), known, newTasks)

\* A detection that reports the new tasks without recording them.
detectNewTasksForgets(tasks, known) ==
    [detectLoop(tasks, known, <<>>) EXCEPT !.known = known]

\* A detection that reports the new tasks latest first.
detectNewTasksReversed(tasks, known) ==
    LET d == detectLoop(tasks, known, <<>>)
        n == Len(d.newTasks)
    IN  [d EXCEPT !.newTasks = [i \in 1..n |-> d.newTasks[n + 1 - i]]]

\* A detection that records the identifiers after the pass over the list.
detectNewTasksRecordsLate(tasks, known) ==
    [newTasks |-> SelectSeq(tasks, LAMBDA t : t \notin known),
     known |-> known \cup Range(tasks)]

detectNewTasks(tasks, known) == detectLoop(tasks, known, <<>>)

\* clearInterval(h) on the runtime's set of active timers.
clearInterval(ts, h) == ts \ {h}

\* A start that installs the new interval without clearing the existing one.
startTimersLeak(ts, cur, h) == ts \cup {h}

\* startNotificationPolling's timer handling: the existing interval, if any, is
\* cleared, then setInterval installs the new one.
startTimers(ts, cur, h) == (IF cur # 0 THEN clearInterval(ts, cur) ELSE ts) \cup {h}

\* A stop that also forgets the known tasks.
stopResets(s) == [s EXCEPT !.timers = clearInterval(s.timers, s.pollingInterval),
                           !.pollingInterval = 0,
                           !.knownTaskIds = {}]

\* stopNotificationPolling on the service's fields: with a timer handle set, the
\* timer is cleared and the handle becomes undefined; otherwise nothing happens.
stopNotificationPolling(s) ==
    IF s.pollingInterval # 0
    THEN [s EXCEPT !.timers = clearInterval(s.timers, s.pollingInterval),
                   !.pollingInterval = 0]
    ELSE s

\* A tick that calls the callback whatever the detection found.
notifyAlways(newTasks) == <<newTasks>>

\* The tick's use of the detection result: the lists the callback is called
\* with (it is called only with a non-empty list).
notify(newTasks) == IF Len(newTasks) > 0 THEN <<newTasks>> ELSE <<>>

\* getCredentials up to its first real wait: the cached value, else the
\* settings; with neither it shows the prompt and waits for the user.
CredentialsAvailable == credentials \/ configured

\* A fetch issued now by an operation of the given kind.
\* (known0 is history: knownTaskIds when a tick issued its fetch.)
Fetching(kind) == [kind |-> kind, stage |-> "fetch",
                   known0 |-> IF kind = "tick" THEN knownTaskIds ELSE {}]
Prompting(kind) == [kind |-> kind, stage |-> "prompt", known0 |-> {}]

Issue(kind) == IF CredentialsAvailable THEN Fetching(kind) ELSE Prompting(kind)

\* ------------------------------------------------- JiraTasksProvider code
\* Strings whose characters the code inspects are sequences of characters.
Lower == [c \in {"A", "B", "C", "D", "E", "F", "G", "H", "I", "J", "K", "L", "M", "N",
                 "O", "P", "Q", "R", "S", "T", "U", "V", "W", "X", "Y", "Z"} |->
            CASE c = "A" -> "a" [] c = "B" -> "b" [] c = "C" -> "c" [] c = "D" -> "d"
              [] c = "E" -> "e" [] c = "F" -> "f" [] c = "G" -> "g" [] c = "H" -> "h"
              [] c = "I" -> "i" [] c = "J" -> "j" [] c = "K" -> "k" [] c = "L" -> "l"
              [] c = "M" -> "m" [] c = "N" -> "n" [] c = "O" -> "o" [] c = "P" -> "p"
              [] c = "Q" -> "q" [] c = "R" -> "r" [] c = "S" -> "s" [] c = "T" -> "t"
              [] c = "U" -> "u" [] c = "V" -> "v" [] c = "W" -> "w" [] c = "X" -> "x"
              [] c = "Y" -> "y" [] c = "Z" -> "z"]

\* A lowering that leaves the text as it is written.
toLowerCaseNot(str) == str

\* String.prototype.toLowerCase
toLowerCase(str) == [i \in 1..Len(str) |-> IF str[i] \in DOMAIN Lower THEN Lower[str[i]]
                                           ELSE str[i]]

\* String.prototype.includes
includes(str, sub) ==
    \E i \in 1..(Len(str) - Len(sub) + 1) : SubSeq(str, i, i + Len(sub) - 1) = sub

\* The status words categorizeTask looks for.
DoneWords == {<<"d", "o", "n", "e">>, <<"c", "l", "o", "s", "e", "d">>, <<"r", "e", "s", "o", "l", "v", "e", "d">>, <<"c", "o", "m", "p", "l", "e", "t", "e">>, <<"f", "i", "n", "i", "s", "h", "e", "d">>}
DiscardedWords == {<<"d", "i", "s", "c", "a", "r", "d">>,
                   <<"w", "o", "n", "'", "t", " ", "d", "o">>,
                   <<"w", "o", "n", "t", " ", "d", "o">>,
                   <<"c", "a", "n", "c", "e", "l", "l", "e", "d">>,
                   <<"c", "a", "n", "c", "e", "l", "e", "d">>,
                   <<"i", "n", "v", "a", "l", "i", "d">>,
                   <<"o", "b", "s", "o", "l", "e", "t", "e">>,
                   <<"r", "e", "j", "e", "c", "t">>}

\* enum VersionCategory
Unreleased == "Unreleased"
Released == "Released"
NoVersion == "No Version"
Done == "Done"
Discarded == "Discarded"

\* enum MainGroupCategory
UnreleasedVersions == "Unreleased Versions"
ReleasedVersions == "Released Versions"
DoneAndDiscarded == "Done and Discarded Tasks"

\* A categorization that looks for the discarded words first.
categorizeTaskDiscardedFirst(task) ==
    LET status == [i \in 1..Len(task.status) |->
                      IF task.status[i] \in DOMAIN Lower THEN Lower[task.status[i]]
                      ELSE task.status[i]]
    IN  IF \E w \in DiscardedWords : includes(status, w)
        THEN [category |-> Discarded, versionName |-> "", releaseDate |-> 0]
        ELSE IF \E w \in DoneWords : includes(status, w)
        THEN [category |-> Done, versionName |-> "", releaseDate |-> 0]
        ELSE IF Len(task.fixVersions) = 0
        THEN [category |-> NoVersion, versionName |-> "", releaseDate |-> 0]
        ELSE LET version == task.fixVersions[1]
             IN  [category |-> IF version.released THEN Released ELSE Unreleased,
                  versionName |-> version.name, releaseDate |-> version.releaseDate]

\* A categorization that reads the last version of the task.
categorizeTaskLastVersion(task) ==
    LET status == [i \in 1..Len(task.status) |->
                      IF task.status[i] \in DOMAIN Lower THEN Lower[task.status[i]]
                      ELSE task.status[i]]
    IN  IF \E w \in DoneWords : includes(status, w)
        THEN [category |-> Done, versionName |-> "", releaseDate |-> 0]
        ELSE IF \E w \in DiscardedWords : includes(status, w)
        THEN [category |-> Discarded, versionName |-> "", releaseDate |-> 0]
        ELSE IF Len(task.fixVersions) = 0
        THEN [category |-> NoVersion, versionName |-> "", releaseDate |-> 0]
        ELSE LET version == task.fixVersions[Len(task.fixVersions)]
             IN  [category |-> IF version.released THEN Released ELSE Unreleased,
                  versionName |-> version.name, releaseDate |-> version.releaseDate]

\* categorizeTask(task). An absent versionName is "" and an absent releaseDate
\* is 0: the code only tests them for truthiness, where absent and empty agree.
categorizeTask(task) ==
    LET status == toLowerCase(task.status)
    IN  IF \E w \in DoneWords : includes(status, w)
        THEN [category |-> Done, versionName |-> "", releaseDate |-> 0]
        ELSE IF \E w \in DiscardedWords : includes(status, w)
        THEN [category |-> Discarded, versionName |-> "", releaseDate |-> 0]
        ELSE IF Len(task.fixVersions) = 0
        THEN [category |-> NoVersion, versionName |-> "", releaseDate |-> 0]
        ELSE LET version == task.fixVersions[1]
             IN  IF version.released
                 THEN [category |-> Released, versionName |-> version.name,
                       releaseDate |-> version.releaseDate]
                 ELSE [category |-> Unreleased, versionName |-> version.name,
                       releaseDate |-> version.releaseDate]

\* The key of a task's group in the tasksByVersion map.
versionKey(category, versionName) ==
    IF versionName # "" THEN category \o "-" \o versionName ELSE category

\* A lookup that never finds the key.
mapIndexMisses(map, key) == 0

\* Map.get on the map's entries, a list in insertion order: the index, or 0.
mapIndex(map, key) ==
    IF \E i \in 1..Len(map) : map[i].key = key
    THEN CHOOSE i \in 1..Len(map) : map[i].key = key
    ELSE 0

\* A grouping where every task pushed to a group brings its date to the group.
RECURSIVE groupTasksLastDate(_, _)
groupTasksLastDate(tasks, map) ==
    IF tasks = <<>> THEN map
    ELSE LET task == Head(tasks)
             c == categorizeTask(task)
             key == versionKey(c.category, c.versionName)
             i == mapIndex(map, key)
         IN  IF i = 0
             THEN groupTasksLastDate(Tail(tasks),
                             Append(map, [key |-> key, category |-> c.category,
                                          versionName |-> c.versionName,
                                          releaseDate |-> c.releaseDate,
                                          tasks |-> <<task.id>>]))
             ELSE groupTasksLastDate(Tail(tasks),
                             [map EXCEPT ![i].tasks = Append(@, task.id),
                                         ![i].releaseDate = c.releaseDate])

\* The forEach over the tasks: each task is pushed to the group of its key, a
\* group created, with the task's version name and date, when the key is new.
\* (A group holds references to the task objects: here, their identifiers.)
RECURSIVE groupTasks(_, _)
groupTasks(tasks, map) ==
    IF tasks = <<>> THEN map
    ELSE LET task == Head(tasks)
             c == categorizeTask(task)
             key == versionKey(c.category, c.versionName)
             i == mapIndex(map, key)
         IN  IF i = 0
             THEN groupTasks(Tail(tasks),
                             Append(map, [key |-> key, category |-> c.category,
                                          versionName |-> c.versionName,
                                          releaseDate |-> c.releaseDate,
                                          tasks |-> <<task.id>>]))
             ELSE groupTasks(Tail(tasks),
                             [map EXCEPT ![i].tasks = Append(@, task.id)])

\* new Date(releaseDate).getTime(): milliseconds, for a date given as a day number.
getTime(releaseDate) == releaseDate * 86400000

\* String.prototype.localeCompare on the version names of the model.
NameOrder == <<"", "1.0", "2.0">>
nameRank(name) == CHOOSE i \in 1..Len(NameOrder) : NameOrder[i] = name
localeCompare(a, b) == nameRank(a) - nameRank(b)

\* A comparator of the unreleased versions with the latest date first.
compareUnreleasedLatestFirst(a, b) ==
    IF a.releaseDate # 0 /\ b.releaseDate # 0
    THEN getTime(b.releaseDate) - getTime(a.releaseDate)
    ELSE IF a.releaseDate # 0 THEN -1
    ELSE IF b.releaseDate # 0 THEN 1
    ELSE localeCompare(a.versionName, b.versionName)

\* The comparator of the unreleased versions: earliest date first, a group
\* with a date before one without, then by version name.
compareUnreleased(a, b) ==
    IF a.releaseDate # 0 /\ b.releaseDate # 0
    THEN getTime(a.releaseDate) - getTime(b.releaseDate)
    ELSE IF a.releaseDate # 0 THEN -1
    ELSE IF b.releaseDate # 0 THEN 1
    ELSE localeCompare(a.versionName, b.versionName)

\* A comparator of the released versions with the earliest date first.
compareReleasedEarliestFirst(a, b) ==
    IF a.releaseDate # 0 /\ b.releaseDate # 0
    THEN getTime(a.releaseDate) - getTime(b.releaseDate)
    ELSE IF a.releaseDate # 0 THEN -1
    ELSE IF b.releaseDate # 0 THEN 1
    ELSE localeCompare(a.versionName, b.versionName)

\* A comparator of the released versions with the names of the groups without
\* a date in descending order.
compareReleasedNameDescending(a, b) ==
    IF a.releaseDate # 0 /\ b.releaseDate # 0
    THEN getTime(b.releaseDate) - getTime(a.releaseDate)
    ELSE IF a.releaseDate # 0 THEN -1
    ELSE IF b.releaseDate # 0 THEN 1
    ELSE localeCompare(b.versionName, a.versionName)

\* The comparator of the released versions: most recent date first, a group
\* with a date before one without, then by version name.
compareReleased(a, b) ==
    IF a.releaseDate # 0 /\ b.releaseDate # 0
    THEN getTime(b.releaseDate) - getTime(a.releaseDate)
    ELSE IF a.releaseDate # 0 THEN -1
    ELSE IF b.releaseDate # 0 THEN 1
    ELSE localeCompare(a.versionName, b.versionName)

\* Array.prototype.filter (and find, its first element), with the predicate
\* the code always uses: group => group.category === category
filter(map, category) == SelectSeq(map, LAMBDA g : g.category = category)

\* The comparator the groups of a category are sorted with.
compare(category, a, b) ==
    IF category = Unreleased THEN compareUnreleased(a, b) ELSE compareReleased(a, b)

\* Array.prototype.sort, which is stable: an element stands behind those that
\* compare less than it, and behind those that compare equal and came before it.
sort(seq, category) ==
    LET n == Len(seq)
        rank(i) == 1 + Cardinality({j \in 1..n :
                                      \/ compare(category, seq[j], seq[i]) < 0
                                      \/ compare(category, seq[j], seq[i]) = 0 /\ j < i})
    IN  [k \in 1..n |-> seq[CHOOSE i \in 1..n : rank(i) = k]]

\* new VersionCategoryItem(category, tasks, version, releaseDate, state)
VersionCategoryItem(category, tasks, version, releaseDate, collapsed) ==
    [category |-> category, tasks |-> tasks, version |-> version,
     releaseDate |-> releaseDate, collapsed |-> collapsed]

\* new MainGroupItem(category, categoryItems)
MainGroupItem(category, categoryItems) ==
    [category |-> category, categoryItems |-> categoryItems]

\* The items made of the groups of a list, one each, expanded.
versionItems(groups) ==
    [i \in 1..Len(groups) |->
        VersionCategoryItem(groups[i].category, groups[i].tasks, groups[i].versionName,
                            groups[i].releaseDate, FALSE)]

\* The unreleased groups, filtered from the map's values and sorted.
unreleasedVersions(map) ==
    sort(filter(map, Unreleased), Unreleased)

\* The released groups, filtered from the map's values and sorted.
releasedVersions(map) ==
    sort(filter(map, Released), Released)

\* A tree that leaves the tasks without a version out.
categoryItemNone(map, category, collapsed) == <<>>

\* The item of the first group of the given category, if the map has one with
\* tasks: the No Version, Done and Discarded groups.
categoryItem(map, category, collapsed) ==
    LET found == filter(map, category)
    IN  IF found # <<>> /\ Len(found[1].tasks) > 0
        THEN <<VersionCategoryItem(category, found[1].tasks, "", 0, collapsed)>>
        ELSE <<>>

\* A main group made whether or not it has items.
mainGroupAlways(category, items) == <<MainGroupItem(category, items)>>

\* The main group of the given items, if there are any.
mainGroup(category, items) ==
    IF Len(items) > 0 THEN <<MainGroupItem(category, items)>> ELSE <<>>

\* A tree with the tasks without a version under the unreleased versions.
getChildrenNoVersionUnreleased(tasks) ==
    IF Len(tasks) = 0 THEN <<>>
    ELSE LET tasksByVersion == groupTasks(tasks, <<>>)
             unreleasedCategoryItems ==
                 versionItems(unreleasedVersions(tasksByVersion))
                    \o categoryItem(tasksByVersion, NoVersion, FALSE)
             releasedCategoryItems == versionItems(releasedVersions(tasksByVersion))
             doneDiscardedCategoryItems ==
                 categoryItem(tasksByVersion, Done, TRUE)
                    \o categoryItem(tasksByVersion, Discarded, TRUE)
         IN  mainGroup(UnreleasedVersions, unreleasedCategoryItems)
                \o mainGroup(ReleasedVersions, releasedCategoryItems)
                \o mainGroup(DoneAndDiscarded, doneDiscardedCategoryItems)

\* A tree with the Discarded group before the Done group.
getChildrenDiscardedFirst(tasks) ==
    IF Len(tasks) = 0 THEN <<>>
    ELSE LET tasksByVersion == groupTasks(tasks, <<>>)
             unreleasedCategoryItems == versionItems(unreleasedVersions(tasksByVersion))
             releasedCategoryItems ==
                 versionItems(releasedVersions(tasksByVersion))
                    \o categoryItem(tasksByVersion, NoVersion, FALSE)
             doneDiscardedCategoryItems ==
                 categoryItem(tasksByVersion, Discarded, TRUE)
                    \o categoryItem(tasksByVersion, Done, TRUE)
         IN  mainGroup(UnreleasedVersions, unreleasedCategoryItems)
                \o mainGroup(ReleasedVersions, releasedCategoryItems)
                \o mainGroup(DoneAndDiscarded, doneDiscardedCategoryItems)

\* getChildren() for the root, on the fetched task list.
getChildren(tasks) ==
    IF Len(tasks) = 0 THEN <<>>
    ELSE LET tasksByVersion == groupTasks(tasks, <<>>)
             unreleasedCategoryItems == versionItems(unreleasedVersions(tasksByVersion))
             releasedCategoryItems ==
                 versionItems(releasedVersions(tasksByVersion))
                    \o categoryItem(tasksByVersion, NoVersion, FALSE)
             doneDiscardedCategoryItems ==
                 categoryItem(tasksByVersion, Done, TRUE)
                    \o categoryItem(tasksByVersion, Discarded, TRUE)
         IN  mainGroup(UnreleasedVersions, unreleasedCategoryItems)
                \o mainGroup(ReleasedVersions, releasedCategoryItems)
                \o mainGroup(DoneAndDiscarded, doneDiscardedCategoryItems)

\* The tasks the tracker can return to the tree view. A version has one of the
\* names of NameOrder, a released flag and a release date or none (0).
Statuses == {<<"O", "p", "e", "n">>,
             <<"D", "o", "n", "e">>,
             <<"I", "n", "v", "a", "l", "i", "d">>}

Versions == [name : Range(NameOrder) \ {""}, released : BOOLEAN, releaseDate : 0..MaxDate]

\* The lists of versions of a task: none, one, or one followed by another.
FixVersionLists ==
    {<<>>} \cup {<<v>> : v \in Versions}
           \cup {<<[name |-> "1.0", released |-> FALSE, releaseDate |-> 0],
                    [name |-> "2.0", released |-> TRUE, releaseDate |-> 1]>>}

\* What a task is made of, but for its identifier: tasks with a final status
\* come with one version list, as their category does not read it (the
\* specification of categorizeTask alone takes them with every kind of list).
TaskShapes ==
    {[status |-> <<"O", "p", "e", "n">>, fixVersions |-> f] : f \in FixVersionLists}
       \cup {[status |-> st, fixVersions |-> <<[name |-> "1.0", released |-> TRUE, releaseDate |-> 1]>>] :
                st \in Statuses \ {<<"O", "p", "e", "n">>}}

\* The task lists of at most n tasks: the i-th task has the identifier i.
RECURSIVE ShapeLists(_)
ShapeLists(n) ==
    IF n = 0 THEN {<<>>}
    ELSE LET shorter == ShapeLists(n - 1)
         IN  shorter \cup {Append(s, x) : s \in {t \in shorter : Len(t) = n - 1},
                                          x \in TaskShapes}

TaskLists(n) ==
    {[i \in 1..Len(s) |-> [id |-> i, status |-> s[i].status,
                           fixVersions |-> s[i].fixVersions]] : s \in ShapeLists(n)}

\* The message getChildren shows for the root: none when there are tasks.
message(tasks) == IF Len(tasks) = 0 THEN "No JIRA tasks assigned to you." ELSE ""

\* The pieces of the status texts handed to categorizeTask alone: the words it
\* looks for, in various cases, and others.
StatusParts ==
    {<<"D", "o", "n", "e">>, <<"C", "L", "O", "S", "E", "D">>,
     <<"r", "e", "s", "o", "l", "v", "e", "d">>,
     <<"C", "o", "m", "p", "l", "e", "t", "e">>,
     <<"F", "i", "n", "i", "s", "h", "e", "d">>, <<"D", "i", "s", "c", "a", "r", "d">>,
     <<"W", "o", "n", "'", "t", " ", "D", "o">>, <<"W", "O", "N", "T", " ", "D", "O">>,
     <<"C", "a", "n", "c", "e", "l", "l", "e", "d">>,
     <<"c", "a", "n", "c", "e", "l", "e", "d">>, <<"I", "n", "v", "a", "l", "i", "d">>,
     <<"O", "b", "s", "o", "l", "e", "t", "e">>, <<"R", "e", "j", "e", "c", "t">>,
     <<"O", "p", "e", "n">>, <<"I", "n", " ", "P", "r", "o", "g", "r", "e", "s", "s">>,
     <<"e", "d">>, <<" ">>}

\* The status texts made of at most n pieces.
RECURSIVE StatusTexts(_)
StatusTexts(n) ==
    IF n = 0 THEN {<<>>}
    ELSE LET shorter == StatusTexts(n - 1)
         IN  shorter \cup {t \o q : t \in shorter, q \in StatusParts}

\* The lists of no, one or two versions.
VersionPairs ==
    {<<>>} \cup {<<v>> : v \in Versions} \cup {<<v, w>> : v \in Versions, w \in Versions}

\* The tasks handed to categorizeTask alone: any status text with a few of
\* the version lists, and an open task with any of them.
CategorizeInputs(n) ==
    {[id |-> 1, status |-> st, fixVersions |-> f] :
        st \in StatusTexts(n),
        f \in {<<>>,
               <<[name |-> "1.0", released |-> FALSE, releaseDate |-> 1]>>,
               <<[name |-> "2.0", released |-> TRUE, releaseDate |-> 0],
                 [name |-> "1.0", released |-> FALSE, releaseDate |-> 1]>>}}
       \cup {[id |-> 1, status |-> <<"O", "p", "e", "n">>, fixVersions |-> f] :
                f \in VersionPairs}

\* No task handed to categorizeTask, and no result of it.
NoTask == [id |-> 0, status |-> <<>>, fixVersions |-> <<>>]
NotCategorized == [category |-> "", versionName |-> "", releaseDate |-> 0]

\* The tree view before it has asked for the root's children, and after
\* getChildren has returned the main groups, with the message it has shown.
NotLoaded == [loaded |-> FALSE, roots |-> <<>>, shown |-> ""]
Loaded(mainGroups, msg) == [loaded |-> TRUE, roots |-> mainGroups, shown |-> msg]

TypeOK ==
    /\ configured \in BOOLEAN /\ credentials \in BOOLEAN
    /\ knownTaskIds \subseteq Ids
    /\ pollingInterval \in 0..MaxTimers
    /\ timers \subseteq 1..MaxTimers
    /\ BagCardinality(pending) <= MaxInFlight
    /\ Len(fetched) <= MaxTasks
    /\ tree.loaded \in BOOLEAN
    /\ reported = NotCounted \/ reported \in [Ids -> 0..MaxReports]
    /\ notificationsEnabled \in BOOLEAN /\ listening \in BOOLEAN
    /\ activation \in {"inactive", "active", "deactivated"}

Init ==
    /\ configured \in BOOLEAN
    /\ credentials = FALSE
    /\ knownTaskIds = {}
    /\ pollingInterval = 0
    /\ timers = {}
    /\ pending = EmptyBag
    /\ stopKnown = {}
    /\ last = NoEvent
    /\ reported = NotCounted
    /\ fetched = <<>>
    /\ tree = NotLoaded
    /\ categorizing = NoTask
    /\ categorized = NotCategorized
    /\ notificationsEnabled = TRUE
    /\ activation = "inactive"
    /\ listening = FALSE

\* setInterval returns a handle that no active timer has: the handles are told
\* apart, and nothing else of them is used.
NewHandle == CHOOSE h \in 1..(MaxTimers + 1) : h \notin timers /\ h # pollingInterval

\* The fields of the service instance, as one record.
Service == [pollingInterval |-> pollingInterval, timers |-> timers,
            knownTaskIds |-> knownTaskIds, credentials |-> credentials]

\* startNotificationPolling(callback): the seed fetch is issued (getMyTasks runs
\* up to its first real wait) and the interval timer installed.
Start ==
    /\ BagCardinality(pending) < MaxInFlight
    /\ LET ts == startTimers(timers, pollingInterval, NewHandle)
       IN  /\ Cardinality(ts) <= MaxTimers
           /\ timers' = ts
    /\ pollingInterval' = NewHandle
    /\ credentials' = CredentialsAvailable
    /\ pending' = pending (+) One(Issue("seed"))
    /\ Log(Event(IF pollingInterval # 0 THEN "restart" ELSE "start"))
    /\ UNCHANGED <<configured, knownTaskIds, stopKnown>>

\* stopNotificationPolling(), called by initializeNotificationSystem and by
\* deactivate.
Stop ==
    LET s == stopNotificationPolling(Service)
    IN  /\ pollingInterval' = s.pollingInterval
        /\ timers' = s.timers
        /\ knownTaskIds' = s.knownTaskIds
        /\ credentials' = s.credentials
        /\ stopKnown' = knownTaskIds
        /\ Log(Event(IF pollingInterval # 0 THEN "stop" ELSE "stopIdle"))
        /\ UNCHANGED <<configured, pending>>

\* The interval timer h fires: the tick calls getCredentials and, with
\* credentials at hand, getMyTasks issues the fetch.
TickFire(h) ==
    /\ h \in timers
    /\ BagCardinality(pending) < MaxInFlight
    /\ credentials' = CredentialsAvailable
    /\ pending' = pending (+) One(Issue("tick"))
    /\ Log(Event("tickFire"))
    /\ UNCHANGED <<configured, knownTaskIds, pollingInterval, timers, stopKnown>>

\* The user answers the credentials prompt of operation p with "Setup Now" and
\* fills in the three input boxes: the settings and the cache are written, and
\* the operation goes on: getMyTasks issues the fetch.
PromptSetup(p) ==
    /\ p \in BagToSet(pending)
    /\ p.stage = "prompt"
    /\ configured' = TRUE
    /\ credentials' = TRUE
    /\ pending' = (pending (-) One(p)) (+) One(Fetching(p.kind))
    /\ Log(Event("fetchIssued"))
    /\ UNCHANGED <<knownTaskIds, pollingInterval, timers, stopKnown>>

\* The user answers "Setup Now" and cancels an input box: getCredentials calls
\* itself again, and goes on when the cache or the settings hold credentials by
\* now (otherwise the prompt is shown again).
PromptRetry(p) ==
    /\ p \in BagToSet(pending)
    /\ p.stage = "prompt"
    /\ CredentialsAvailable
    /\ credentials' = TRUE
    /\ pending' = (pending (-) One(p)) (+) One(Fetching(p.kind))
    /\ Log(Event("fetchIssued"))
    /\ UNCHANGED <<configured, knownTaskIds, pollingInterval, timers, stopKnown>>

\* The user dismisses the prompt: getCredentials returns undefined. A tick ends
\* there; the seed's getMyTasks throws and the error is logged.
PromptDismiss(p) ==
    /\ p \in BagToSet(pending)
    /\ p.stage = "prompt"
    /\ pending' = pending (-) One(p)
    /\ Log(Event(IF p.kind = "tick" THEN "tickNoCreds" ELSE "seedFail"))
    /\ UNCHANGED <<configured, credentials, knownTaskIds, pollingInterval, timers,
                   stopKnown>>

\* The seed fetch p returns the task list r.
SeedOk(p, r) ==
    /\ p \in BagToSet(pending)
    /\ p.kind = "seed" /\ p.stage = "fetch"
    /\ knownTaskIds' = updateKnownTasks(r, knownTaskIds)
    /\ pending' = pending (-) One(p)
    /\ Log([Event("seedOk") EXCEPT !.resp = r])
    /\ UNCHANGED <<configured, credentials, pollingInterval, timers, stopKnown>>

\* The fetch of the tick p returns the task list r.
TickOk(p, r) ==
    /\ p \in BagToSet(pending)
    /\ p.kind = "tick" /\ p.stage = "fetch"
    /\ LET d == detectNewTasks(r, knownTaskIds)
       IN  /\ knownTaskIds' = d.known
           /\ Log([Event("tickOk") EXCEPT !.resp = r, !.calls = notify(d.newTasks)])
    /\ pending' = pending (-) One(p)
    /\ UNCHANGED <<configured, credentials, pollingInterval, timers, stopKnown>>

\* A failure handler that gives up polling: it clears the interval.
FetchFailStops(p) ==
    /\ p \in BagToSet(pending)
    /\ p.stage = "fetch"
    /\ pending' = pending (-) One(p)
    /\ timers' = clearInterval(timers, pollingInterval)
    /\ pollingInterval' = 0
    /\ Log(Event(IF p.kind = "tick" THEN "tickFail" ELSE "seedFail"))
    /\ UNCHANGED <<configured, credentials, knownTaskIds, stopKnown>>

\* A failure handler of the seed that gives up polling: it clears the interval.
FetchFailSeedStops(p) ==
    /\ p \in BagToSet(pending)
    /\ p.stage = "fetch"
    /\ pending' = pending (-) One(p)
    /\ timers' = IF p.kind = "seed" THEN clearInterval(timers, pollingInterval) ELSE timers
    /\ pollingInterval' = IF p.kind = "seed" THEN 0 ELSE pollingInterval
    /\ Log(Event(IF p.kind = "tick" THEN "tickFail" ELSE "seedFail"))
    /\ UNCHANGED <<configured, credentials, knownTaskIds, stopKnown>>

\* The HTTP request of operation p fails: getMyTasks throws, and the seed's
\* catch handler or the tick's catch block logs the error.
FetchFail(p) ==
    /\ p \in BagToSet(pending)
    /\ p.stage = "fetch"
    /\ pending' = pending (-) One(p)
    /\ Log(Event(IF p.kind = "tick" THEN "tickFail" ELSE "seedFail"))
    /\ UNCHANGED <<configured, credentials, knownTaskIds, pollingInterval, timers,
                   stopKnown>>

\* The configureJiraCredentials command writes the three settings.
ConfigureCredentials ==
    /\ ~configured
    /\ configured' = TRUE
    /\ Log(Event("configure"))
    /\ UNCHANGED <<credentials, knownTaskIds, pollingInterval, timers, pending,
                   stopKnown>>

Next ==
    \/ Start
    \/ Stop
    \/ \E h \in timers : TickFire(h)
    \/ \E p \in BagToSet(pending) : PromptSetup(p)
    \/ \E p \in BagToSet(pending) : PromptRetry(p)
    \/ \E p \in BagToSet(pending) : PromptDismiss(p)
    \/ \E p \in BagToSet(pending), r \in Responses : SeedOk(p, r)
    \/ \E p \in BagToSet(pending), r \in Responses : TickOk(p, r)
    \/ \E p \in BagToSet(pending) : FetchFail(p)
    \/ ConfigureCredentials

Spec == Init /\ [][Next]_vars

\* The scheduling liveness rests on: an installed interval timer keeps firing
\* (setInterval), an HTTP request that is out comes back, with a task list or
\* with an error, and a user shown the credentials prompt sets them up.
Fairness ==
    /\ WF_vars(\E h \in timers : TickFire(h))
    /\ WF_vars(\E p \in BagToSet(pending) :
                  \/ \E r \in Responses : SeedOk(p, r) \/ TickOk(p, r)
                  \/ FetchFail(p))
    /\ WF_vars(\E p \in BagToSet(pending) : PromptSetup(p) \/ PromptRetry(p))

SpecLive == Init /\ [][Next]_vars /\ Fairness

\* ------------------------------------------ the notification system
\* The extension as the caller of the service: activate() initializes the
\* notification system, whose command and whose configuration listener
\* initialize it again, and deactivate() stops the polling.
InitNotify ==
    /\ configured \in BOOLEAN
    /\ credentials = FALSE
    /\ knownTaskIds = {}
    /\ pollingInterval = 0
    /\ timers = {}
    /\ pending = EmptyBag
    /\ stopKnown = {}
    /\ last = NoEvent
    /\ reported = NotCounted
    /\ fetched = <<>>
    /\ tree = NotLoaded
    /\ categorizing = NoTask
    /\ categorized = NotCategorized
    /\ notificationsEnabled \in BOOLEAN
    /\ activation = "inactive"
    /\ listening = FALSE

\* initializeNotificationSystem(), reading the setting as it is after the step.
\* It first registers the commands toggleNotifications and
\* openTaskFromNotification. vscode.commands.registerCommand throws when the
\* identifier is registered already ("Registering a command with an existing
\* command identifier twice will cause an error", vscode.d.ts), and the
\* registrations of the first call last until the extension is deactivated:
\* every call but the first throws there, before the polling is stopped.
\* The first call stops the polling, returns if notifications are disabled,
\* and otherwise starts the polling and registers the configuration listener.
initializeNotificationSystem ==
    IF activation = "active"
    THEN /\ last' = Event("initThrows")
         /\ UNCHANGED <<credentials, knownTaskIds, pollingInterval, timers, pending,
                        stopKnown, activation, listening>>
    ELSE LET s == stopNotificationPolling(Service)
         IN  /\ activation' = "active"
             /\ stopKnown' = knownTaskIds
             /\ knownTaskIds' = s.knownTaskIds
             /\ IF ~notificationsEnabled'
                THEN /\ pollingInterval' = s.pollingInterval
                     /\ timers' = s.timers
                     /\ credentials' = s.credentials
                     /\ last' = Event("initDisabled")
                     /\ UNCHANGED <<pending, listening>>
                ELSE /\ timers' = startTimers(s.timers, s.pollingInterval, NewHandle)
                     /\ pollingInterval' = NewHandle
                     /\ credentials' = CredentialsAvailable
                     /\ pending' = pending (+) One(Issue("seed"))
                     /\ listening' = TRUE
                     /\ last' = Event("initEnabled")

\* activate(): the notification system is initialized.
Activate ==
    /\ activation = "inactive"
    /\ notificationsEnabled' = notificationsEnabled
    /\ initializeNotificationSystem
    /\ UNCHANGED <<configured, reported, treeVars, catVars>>

\* The user changes jiraWorkflow.notificationsEnabled in the settings: the
\* configuration listener, if one is registered, initializes the notification
\* system.
ChangeSetting ==
    /\ notificationsEnabled' = ~notificationsEnabled
    /\ IF listening
       THEN initializeNotificationSystem
       ELSE /\ last' = Event("setting")
            /\ UNCHANGED <<credentials, knownTaskIds, pollingInterval, timers, pending,
                           stopKnown, activation, listening>>
    /\ UNCHANGED <<configured, reported, treeVars, catVars>>

\* The command toggleNotifications: the setting is inverted (the listener, if
\* one is registered, runs on the update) and the handler initializes the
\* notification system.
ToggleNotifications ==
    /\ activation = "active"
    /\ notificationsEnabled' = ~notificationsEnabled
    /\ initializeNotificationSystem
    /\ UNCHANGED <<configured, reported, treeVars, catVars>>

\* deactivate(): the polling is stopped; the extension's subscriptions, its
\* commands and its listener, are disposed of.
Deactivate ==
    /\ activation = "active"
    /\ LET s == stopNotificationPolling(Service)
       IN  /\ pollingInterval' = s.pollingInterval
           /\ timers' = s.timers
           /\ knownTaskIds' = s.knownTaskIds
           /\ credentials' = s.credentials
    /\ stopKnown' = knownTaskIds
    /\ activation' = "deactivated"
    /\ listening' = FALSE
    /\ last' = Event("deactivate")
    /\ UNCHANGED <<configured, pending, notificationsEnabled, reported, treeVars, catVars>>

NextNotify ==
    \/ Activate
    \/ ChangeSetting
    \/ ToggleNotifications
    \/ Deactivate
    \/ \E h \in timers : TickFire(h)
    \/ \E p \in BagToSet(pending) : PromptRetry(p)
    \/ \E p \in BagToSet(pending) : PromptSetup(p)
    \/ \E p \in BagToSet(pending) : PromptDismiss(p)
    \/ \E p \in BagToSet(pending), r \in Responses : SeedOk(p, r)
    \/ \E p \in BagToSet(pending), r \in Responses : TickOk(p, r)
    \/ \E p \in BagToSet(pending) : FetchFail(p)
    \/ ConfigureCredentials

SpecNotify == InitNotify /\ [][NextNotify]_vars

\* The lifetime of the callback: the service with credentials in the settings,
\* under start and stop calls, ticks and fetches that return at any time, with
\* the history of what the callback was passed.
InitReports ==
    /\ configured = TRUE
    /\ credentials = FALSE
    /\ knownTaskIds = {}
    /\ pollingInterval = 0
    /\ timers = {}
    /\ pending = EmptyBag
    /\ stopKnown = {}
    /\ last = NoEvent
    /\ reported = NoneReported
    /\ fetched = <<>>
    /\ tree = NotLoaded
    /\ categorizing = NoTask
    /\ categorized = NotCategorized
    /\ notificationsEnabled = TRUE
    /\ activation = "inactive"
    /\ listening = FALSE

NextReports ==
    \/ Start
    \/ Stop
    \/ \E h \in timers : TickFire(h)
    \/ \E p \in BagToSet(pending), r \in Responses : SeedOk(p, r)
    \/ \E p \in BagToSet(pending), r \in Responses : TickOk(p, r)
    \/ \E p \in BagToSet(pending) : FetchFail(p)

SpecReports == InitReports /\ [][NextReports]_vars

\* The tree view alone: the tracker holds some task list, and the view asks
\* for the children of the root.
InitTree ==
    /\ configured = TRUE
    /\ credentials = FALSE
    /\ knownTaskIds = {}
    /\ pollingInterval = 0
    /\ timers = {}
    /\ pending = EmptyBag
    /\ stopKnown = {}
    /\ last = NoEvent
    /\ reported = NotCounted
    /\ fetched \in TaskLists(MaxTasks)
    /\ tree = NotLoaded
    /\ categorizing = NoTask
    /\ categorized = NotCategorized
    /\ notificationsEnabled = TRUE
    /\ activation = "inactive"
    /\ listening = FALSE

\* A getChildren that takes the tasks out of the list it was given.
GetChildrenRootConsumes ==
    /\ tree = NotLoaded
    /\ tree' = Loaded(getChildren(fetched), message(fetched))
    /\ fetched' = <<>>
    /\ credentials' = TRUE
    /\ UNCHANGED <<configured, knownTaskIds, pollingInterval, timers, pending,
                   stopKnown, last, reported, catVars, notifyVars>>

\* getChildren(undefined): the tasks are fetched and categorized.
GetChildrenRoot ==
    /\ tree = NotLoaded
    /\ tree' = Loaded(getChildren(fetched), message(fetched))
    /\ credentials' = TRUE
    /\ UNCHANGED <<configured, knownTaskIds, pollingInterval, timers, pending,
                   stopKnown, last, reported, fetched, catVars,
                   notifyVars>>

\* getChildren(undefined) when getMyTasks throws: the error is shown and the
\* root has no children; no task list was obtained.
GetChildrenRootFail ==
    /\ tree = NotLoaded
    /\ tree' = Loaded(<<>>, "Failed to load JIRA tasks")
    /\ fetched' = <<>>
    /\ credentials' = TRUE
    /\ UNCHANGED <<configured, knownTaskIds, pollingInterval, timers, pending,
                   stopKnown, last, reported, catVars, notifyVars>>

NextTree ==
    \/ GetChildrenRoot
    \/ GetChildrenRootFail

SpecTree == InitTree /\ [][NextTree]_vars

\* categorizeTask alone: some task is handed to it, and it returns.
InitCategorize ==
    /\ configured = TRUE
    /\ credentials = FALSE
    /\ knownTaskIds = {}
    /\ pollingInterval = 0
    /\ timers = {}
    /\ pending = EmptyBag
    /\ stopKnown = {}
    /\ last = NoEvent
    /\ reported = NotCounted
    /\ fetched = <<>>
    /\ tree = NotLoaded
    /\ categorizing \in CategorizeInputs(MaxParts)
    /\ categorized = NotCategorized
    /\ notificationsEnabled = TRUE
    /\ activation = "inactive"
    /\ listening = FALSE

CategorizeTask ==
    /\ categorized = NotCategorized
    /\ categorized' = categorizeTask(categorizing)
    /\ UNCHANGED <<watcherVars, treeVars, categorizing, notifyVars>>

NextCategorize == CategorizeTask

SpecCategorize == InitCategorize /\ [][NextCategorize]_vars

\* ---------------------------------------------------------------- claims
\* The identifiers the step just taken passed to the callback.
ReportedIds(e) == UNION {Range(c) : c \in Range(e.calls)}

\* The fetches in flight: operations whose HTTP request is out.
FetchesInFlight ==
    BagCardinality([p \in {q \in DOMAIN pending : q.stage = "fetch"} |-> pending[p]])

\* The groups of the tree, main group after main group.
RECURSIVE AllItems(_)
AllItems(roots) ==
    IF roots = <<>> THEN <<>> ELSE Head(roots).categoryItems \o AllItems(Tail(roots))

\* The tasks of the given groups, group after group.
RECURSIVE AllTasks(_)
AllTasks(items) ==
    IF items = <<>> THEN <<>> ELSE Head(items).tasks \o AllTasks(Tail(items))

\* C1: once the root's children are computed, every task of the fetched list is
\* in exactly one group of the tree, at one position, and the groups hold
\* nothing else: no task is dropped and none is duplicated. (The groups hold
\* as many tasks as the list, and each task of the list is among them.)
C1_EveryTaskInExactlyOneGroup ==
    tree.loaded =>
        LET inTree == AllTasks(AllItems(tree.roots))
        IN  /\ Len(inTree) = Len(fetched)
            /\ \A i \in 1..Len(fetched) : fetched[i].id \in Range(inTree)

\* A full list is categorized into all three main groups.
C1_Witness ==
    /\ tree.loaded
    /\ Len(fetched) = MaxTasks
    /\ Len(tree.roots) = 3

\* C2: on every tick, a fetched task is passed to onNewTasks if and only if its
\* identifier was absent from knownTaskIds when the tick issued its fetch.
C2_NewIffAbsentAtIssue ==
    [][\A p \in BagToSet(pending), r \in Responses :
          TickOk(p, r) =>
             \A x \in Range(r) : (x \in ReportedIds(last')) <=> (x \notin p.known0)]_vars

\* C3: the tasks a start's seed fetch returns are never passed to onNewTasks
\* after that start: here, a seed fetch never returns a task that a tick, which
\* completed while the seed fetch was in flight, has just reported.
C3_SeedTasksNeverReported ==
    [][\A p \in BagToSet(pending), r \in Responses :
          SeedOk(p, r) => Range(r) \cap ReportedIds(last) = {}]_vars

\* C4: a tick whose fetch fails, or that finds no credentials, calls no
\* callback and leaves knownTaskIds, the timer handle and the runtime's timers
\* as they were; with the timer active the next tick can fire; and every tick
\* whose fetch succeeds reports, in order, the fetched tasks whose identifiers
\* knownTaskIds does not hold.
C4_FailedTickIsSkipped ==
    /\ [](last.op \in {"tickFail", "tickNoCreds"} /\ pollingInterval # 0
            => ENABLED (\E h \in timers : TickFire(h)))
    /\ [][/\ last'.op \in {"tickFail", "tickNoCreds"}
                => /\ knownTaskIds' = knownTaskIds
                   /\ last'.calls = <<>>
                   /\ timers' = timers
                   /\ pollingInterval' = pollingInterval
          /\ last'.op = "tickOk"
                => /\ ReportedIds(last') = Range(last'.resp) \ knownTaskIds
                   /\ knownTaskIds' = knownTaskIds \cup Range(last'.resp)]_vars

\* C4 witness: a tick has failed and the timer is still installed.
C4_Witness == last.op = "tickFail" /\ pollingInterval # 0 /\ pollingInterval \in timers

\* C5: the result of a fetch that was in flight when stopNotificationPolling
\* was called is discarded: its completion adds nothing to knownTaskIds and
\* calls no callback. (Stated of a completion right after the stop.)
C5_ResultAfterStopDiscarded ==
    [][last.op = "stop" =>
          \A p \in BagToSet(pending), r \in Responses :
             SeedOk(p, r) \/ TickOk(p, r)
                => knownTaskIds' = knownTaskIds /\ last'.calls = <<>>]_vars

\* C6: at no time are two fetches of the watcher in flight at once.
C6_NoOverlappingFetches == FetchesInFlight <= 1

\* C7: at most one polling timer is active, and it is the one the service
\* holds the handle of.
C7_AtMostOneTimer ==
    /\ Cardinality(timers) <= 1
    /\ timers = IF pollingInterval = 0 THEN {} ELSE {pollingInterval}

\* C7 witness: start was called while a timer was running.
C7_Witness == last.op = "restart" /\ timers = {pollingInterval}

\* C8: stopNotificationPolling with no timer active changes no field of the
\* service, and stopping twice leaves what stopping once leaves.
C8_StopIdempotent ==
    LET once == stopNotificationPolling(Service)
    IN  /\ stopNotificationPolling(once) = once
        /\ pollingInterval = 0 => once = Service

\* C8 witness: stop was called with no timer active and tasks known.
C8_Witness == last.op = "stopIdle" /\ knownTaskIds # {} /\ credentials

\* C9: after stopNotificationPolling, until the next start, no tick begins and
\* the watcher issues no fetch.
C9_IdleAfterStop == last.op \in {"tickFire", "fetchIssued"} => pollingInterval # 0

\* C10: a task whose identifier knownTaskIds held at a stop is not reported
\* after it, whatever is started or fetched later.
C10_KnownSurvivesRestart ==
    last.op = "tickOk" => ReportedIds(last) \cap stopKnown = {}

\* C10 witness: after a stop and a new start, a tick fetched tasks that were
\* known at the stop, and reported none of them.
C10_Witness ==
    /\ last.op = "tickOk" /\ pollingInterval # 0
    /\ Range(last.resp) # {} /\ Range(last.resp) \subseteq stopKnown
    /\ last.calls = <<>>

\* Whether the list a is a subsequence of the list b: a's elements occur in b
\* in the same relative order.
RECURSIVE IsSubsequence(_, _)
IsSubsequence(a, b) ==
    IF a = <<>> THEN TRUE
    ELSE IF b = <<>> THEN FALSE
    ELSE IF Head(a) = Head(b) THEN IsSubsequence(Tail(a), Tail(b))
    ELSE IsSubsequence(a, Tail(b))

\* C11: knownTaskIds grows monotonically: no step of the service (start, stop,
\* seed fetch, tick, failed fetch, prompt answer) removes an identifier from it.
C11_KnownGrowsMonotonically == [][knownTaskIds \subseteq knownTaskIds']_vars

\* A seed fetch returned fewer tasks than were known, and all are still known.
C11_Witness ==
    /\ last.op = "seedOk"
    /\ Range(last.resp) # knownTaskIds
    /\ knownTaskIds = Ids

\* C12: after a tick whose fetch succeeds, every identifier of the response,
\* previously known or new, is in knownTaskIds.
C12_FetchedIdsAreKnown == last.op = "tickOk" => Range(last.resp) \subseteq knownTaskIds

\* A tick's response held a new task and a known one.
C12_Witness ==
    /\ last.op = "tickOk"
    /\ Cardinality(Range(last.resp)) = 2
    /\ Len(last.calls) = 1 /\ Len(last.calls[1]) = 1

\* C13: a tick calls onNewTasks at most once and never with an empty list; a
\* tick whose response holds no identifier unknown to knownTaskIds calls
\* nothing, and no step other than a successful tick calls it at all.
C13_OneNonEmptyCallPerTick ==
    [][/\ Len(last'.calls) <= 1
       /\ \A i \in 1..Len(last'.calls) : last'.calls[i] # <<>>
       /\ last'.op = "tickOk" /\ Range(last'.resp) \subseteq knownTaskIds
             => last'.calls = <<>>
       /\ last'.op # "tickOk" => last'.calls = <<>>]_vars

\* A tick fetched tasks, all of them known, and called nothing.
C13_Witness ==
    /\ last.op = "tickOk"
    /\ last.resp # <<>>
    /\ last.calls = <<>>

\* C14: the list a tick passes to onNewTasks is a subsequence of the tick's
\* fetch response: new tasks are reported in the order of the response.
C14_ReportedInResponseOrder ==
    last.op = "tickOk" =>
        \A i \in 1..Len(last.calls) : IsSubsequence(last.calls[i], last.resp)

\* A tick reported two new tasks, in the order of the response and against
\* the order of their identifiers.
C14_Witness ==
    /\ last.op = "tickOk"
    /\ last.resp = <<2, 1>>
    /\ last.calls = <<last.resp>>

\* A tick has just fired while polling is on and task x is not known.
NewAtTick(x) == last.op = "tickFire" /\ pollingInterval # 0 /\ x \notin knownTaskIds

\* The step taken is not a stop or a start, no fetch fails and no tick is left
\* without credentials, and a task list that arrives holds task x.
SteadyWith(x) ==
    /\ last.op \notin {"stop", "stopIdle", "start", "restart"}
    /\ last.op \notin {"tickFail", "seedFail", "tickNoCreds"}
    /\ last.op \in {"tickOk", "seedOk"} => x \in Range(last.resp)

\* C15: while the watcher stays running, under fair timer firing: if from some
\* tick on no fetch fails and every response holds a task that was not in
\* knownTaskIds at that tick, the task is eventually passed to onNewTasks.
C15_NewTaskEventuallyReported ==
    \A x \in Ids : [](NewAtTick(x) /\ []SteadyWith(x) => <>(x \in ReportedIds(last)))

\* The same with no seed fetch outstanding at the tick.
C15_AfterSeedCompleted ==
    \A x \in Ids :
        []((/\ NewAtTick(x)
            /\ \A p \in BagToSet(pending) : p.kind # "seed"
            /\ []SteadyWith(x))
           => <>(x \in ReportedIds(last)))

\* The small and the capital letters, in the order of the alphabet.
SmallLetters ==
    <<"a", "b", "c", "d", "e", "f", "g", "h", "i", "j", "k", "l", "m",
      "n", "o", "p", "q", "r", "s", "t", "u", "v", "w", "x", "y", "z">>
CapitalLetters ==
    <<"A", "B", "C", "D", "E", "F", "G", "H", "I", "J", "K", "L", "M",
      "N", "O", "P", "Q", "R", "S", "T", "U", "V", "W", "X", "Y", "Z">>

\* The small letter of each capital letter.
SmallOf == [c \in Range(CapitalLetters) |->
              SmallLetters[CHOOSE i \in 1..Len(CapitalLetters) : CapitalLetters[i] = c]]

\* A character of a text and a small letter or sign of a synonym are the same
\* but for their case.
SameLetter(c, d) == c = d \/ (c \in DOMAIN SmallOf /\ SmallOf[c] = d)

\* The text holds the word somewhere, case put aside.
OccursIn(word, text) ==
    \E i \in 0..(Len(text) - Len(word)) :
        \A k \in 1..Len(word) : SameLetter(text[i + k], word[k])

\* The done and the discarded synonyms.
DoneSynonyms ==
    {<<"d", "o", "n", "e">>,
     <<"c", "l", "o", "s", "e", "d">>,
     <<"r", "e", "s", "o", "l", "v", "e", "d">>,
     <<"c", "o", "m", "p", "l", "e", "t", "e">>,
     <<"f", "i", "n", "i", "s", "h", "e", "d">>}
DiscardedSynonyms ==
    {<<"d", "i", "s", "c", "a", "r", "d">>,
     <<"w", "o", "n", "'", "t", " ", "d", "o">>,
     <<"w", "o", "n", "t", " ", "d", "o">>,
     <<"c", "a", "n", "c", "e", "l", "l", "e", "d">>,
     <<"c", "a", "n", "c", "e", "l", "e", "d">>,
     <<"i", "n", "v", "a", "l", "i", "d">>,
     <<"o", "b", "s", "o", "l", "e", "t", "e">>,
     <<"r", "e", "j", "e", "c", "t">>}

HasDoneSynonym(text) == \E w \in DoneSynonyms : OccursIn(w, text)
HasDiscardedSynonym(text) == \E w \in DiscardedSynonyms : OccursIn(w, text)

\* categorizeTask has returned.
HasCategorized == categorized # NotCategorized

\* C16: categorizeTask returns Done exactly when the status text holds, case
\* put aside, one of done, closed, resolved, complete, finished, whatever the
\* versions of the task; a Done result carries no version name and no date.
C16_DoneIffDoneSynonym ==
    HasCategorized =>
        /\ categorized.category = Done <=> HasDoneSynonym(categorizing.status)
        /\ categorized.category = Done =>
              categorized.versionName = "" /\ categorized.releaseDate = 0

\* A task with versions and a done word in capitals is Done.
C16_Witness ==
    /\ HasCategorized
    /\ categorized.category = Done
    /\ categorizing.status = <<"C", "L", "O", "S", "E", "D">>
    /\ Len(categorizing.fixVersions) = 2

\* C17: the first match wins: the result is Discarded exactly when the status
\* holds a discarded synonym and no done synonym; a status with both is Done;
\* the versions are read only when the status holds neither.
C17_FirstMatchWins ==
    HasCategorized =>
        LET done == HasDoneSynonym(categorizing.status)
            discarded == HasDiscardedSynonym(categorizing.status)
        IN  /\ categorized.category = Discarded <=> discarded /\ ~done
            /\ done /\ discarded => categorized.category = Done
            /\ done \/ discarded =>
                  categorized \in {[category |-> c, versionName |-> "", releaseDate |-> 0] :
                                     c \in {Done, Discarded}}
            /\ ~(done \/ discarded) =>
                  categorized.category \in {NoVersion, Released, Unreleased}

\* A task with versions whose status holds a discarded word, then a done one.
C17_Witness ==
    /\ HasCategorized
    /\ categorizing.status = <<"R", "e", "j", "e", "c", "t", "C", "L", "O", "S", "E", "D">>
    /\ categorizing.fixVersions # <<>>
    /\ categorized.category = Done

\* C19: for a task whose status holds no synonym and that has versions, the
\* first version alone decides: Released when its released flag is set,
\* Unreleased otherwise, with the name and the release date of that version.
C19_FirstVersionDecides ==
    /\ HasCategorized
    /\ ~HasDoneSynonym(categorizing.status)
    /\ ~HasDiscardedSynonym(categorizing.status)
    /\ categorizing.fixVersions # <<>>
    => LET first == Head(categorizing.fixVersions)
       IN  categorized = [category |-> IF first.released THEN Released ELSE Unreleased,
                          versionName |-> first.name,
                          releaseDate |-> first.releaseDate]

\* A task with an unreleased version, then a released one of another name and
\* date, is Unreleased.
C19_Witness ==
    /\ HasCategorized
    /\ Len(categorizing.fixVersions) = 2
    /\ ~categorizing.fixVersions[1].released
    /\ categorizing.fixVersions[2].released
    /\ categorizing.fixVersions[2].name # categorizing.fixVersions[1].name
    /\ categorizing.fixVersions[2].releaseDate # categorizing.fixVersions[1].releaseDate
    /\ categorized.category = Unreleased

\* The groups of the main group m of the tree.
ItemsOf(m) == tree.roots[m].categoryItems

\* C18: a task with no version whose status holds no synonym is in the No
\* Version group; that group, when the tree has one, is the last group of the
\* Released Versions main group, behind Released groups only, and nowhere else.
C18_NoVersionLastUnderReleased ==
    tree.loaded =>
        /\ \A i \in 1..Len(fetched) :
              /\ fetched[i].fixVersions = <<>>
              /\ ~HasDoneSynonym(fetched[i].status)
              /\ ~HasDiscardedSynonym(fetched[i].status)
              => \E m \in 1..Len(tree.roots) :
                    LET lastItem == ItemsOf(m)[Len(ItemsOf(m))]
                    IN  /\ tree.roots[m].category = ReleasedVersions
                        /\ lastItem.category = NoVersion
                        /\ fetched[i].id \in Range(lastItem.tasks)
        /\ \A m \in 1..Len(tree.roots) : \A v \in 1..Len(ItemsOf(m)) :
              ItemsOf(m)[v].category = NoVersion =>
                  /\ tree.roots[m].category = ReleasedVersions
                  /\ v = Len(ItemsOf(m))
                  /\ \A u \in 1..(v - 1) : ItemsOf(m)[u].category = Released

\* The tree has unreleased groups, and a No Version group behind a released one.
C18_Witness ==
    /\ tree.loaded
    /\ Len(tree.roots) = 2
    /\ tree.roots[1].category = UnreleasedVersions
    /\ Len(ItemsOf(2)) = 2
    /\ ItemsOf(2)[1].category = Released
    /\ ItemsOf(2)[2].category = NoVersion

\* C20: tasks with the same category and version name are in one group, and
\* no two groups of the tree have the same category and version name, so the
\* Done, Discarded and No Version groups, which have no name, occur at most once.
C20_OneGroupPerCategoryAndVersion ==
    tree.loaded =>
        LET items == AllItems(tree.roots)
            n == Len(items)
            result == [i \in 1..Len(fetched) |-> categorizeTask(fetched[i])]
        IN  /\ \A g \in 1..n : \A h \in (g + 1)..n :
                  \/ items[g].category # items[h].category
                  \/ items[g].version # items[h].version
            /\ \A g \in 1..n :
                  items[g].category \in {Done, Discarded, NoVersion} => items[g].version = ""
            /\ \A i \in 1..Len(fetched) : \A j \in (i + 1)..Len(fetched) :
                  /\ result[i].category = result[j].category
                  /\ result[i].versionName = result[j].versionName
                  => \E g \in 1..n :
                        {fetched[i].id, fetched[j].id} \subseteq Range(items[g].tasks)

\* Tasks of one version with different release dates share a group, next to
\* another group of the same category.
C20_Witness ==
    /\ tree.loaded
    /\ Len(fetched) = 3
    /\ fetched[1].fixVersions # <<>> /\ fetched[2].fixVersions # <<>>
    /\ fetched[1].fixVersions[1].releaseDate # fetched[2].fixVersions[1].releaseDate
    /\ Len(tree.roots) = 1
    /\ Len(ItemsOf(1)) = 2
    /\ \E v \in 1..2 : ItemsOf(1)[v].tasks = <<1, 2>>

\* Alphabetical order of two different version names.
Alphabetical(a, b) == a = "1.0" /\ b = "2.0"

\* The groups of the main group of the given category: none without it.
GroupsUnder(category) ==
    IF \E m \in 1..Len(tree.roots) : tree.roots[m].category = category
    THEN ItemsOf(CHOOSE m \in 1..Len(tree.roots) : tree.roots[m].category = category)
    ELSE <<>>

\* C21: the unreleased groups stand in ascending order of release date, every
\* group with a date before every group without one, and the groups without
\* a date in ascending alphabetical order of version name.
C21_UnreleasedAscending ==
    tree.loaded =>
        LET items == GroupsUnder(UnreleasedVersions)
        IN  \A u \in 1..Len(items) : \A v \in (u + 1)..Len(items) :
               /\ items[u].category = Unreleased /\ items[v].category = Unreleased
               /\ items[u].releaseDate # 0 /\ items[v].releaseDate # 0
                     => items[u].releaseDate <= items[v].releaseDate
               /\ items[v].releaseDate # 0 => items[u].releaseDate # 0
               /\ items[u].releaseDate = 0 /\ items[v].releaseDate = 0
                     => Alphabetical(items[u].version, items[v].version)

\* Two unreleased groups: the one fetched second, with the earlier date,
\* stands before the one of the tasks fetched first and last.
C21_Witness ==
    /\ tree.loaded
    /\ Len(fetched) = 3
    /\ Len(GroupsUnder(UnreleasedVersions)) = 2
    /\ GroupsUnder(UnreleasedVersions)[1].tasks = <<2>>
    /\ GroupsUnder(UnreleasedVersions)[1].releaseDate = 1
    /\ GroupsUnder(UnreleasedVersions)[2].tasks = <<1, 3>>
    /\ GroupsUnder(UnreleasedVersions)[2].releaseDate = 2

\* The released groups among the groups of the Released Versions main group,
\* which the No Version group follows.
ReleasedGroups ==
    SelectSeq(GroupsUnder(ReleasedVersions), LAMBDA g : g.category = Released)

\* C22: the released groups stand in descending order of release date, the
\* most recent first, every group with a date before every group without one.
C22_ReleasedDescending ==
    tree.loaded =>
        LET items == ReleasedGroups
        IN  \A u \in 1..Len(items) : \A v \in (u + 1)..Len(items) :
               /\ items[u].releaseDate # 0 /\ items[v].releaseDate # 0
                     => items[u].releaseDate >= items[v].releaseDate
               /\ items[v].releaseDate # 0 => items[u].releaseDate # 0

\* Two released groups before the No Version group: the most recent, fetched
\* second, stands first.
C22_Witness ==
    /\ tree.loaded
    /\ Len(GroupsUnder(ReleasedVersions)) = 3
    /\ Len(ReleasedGroups) = 2
    /\ ReleasedGroups[1].tasks = <<2>> /\ ReleasedGroups[1].releaseDate = 2
    /\ ReleasedGroups[2].tasks = <<1>> /\ ReleasedGroups[2].releaseDate = 1

MainRank(category) ==
    CASE category = UnreleasedVersions -> 1
      [] category = ReleasedVersions -> 2
      [] category = DoneAndDiscarded -> 3

\* C24: the main groups stand in the order Unreleased Versions, Released
\* Versions, Done and Discarded, each at most once, and under Done and
\* Discarded the Done group, when there is one, stands before the Discarded one.
C24_MainGroupOrder ==
    tree.loaded =>
        /\ \A m \in 1..Len(tree.roots) : \A k \in (m + 1)..Len(tree.roots) :
              MainRank(tree.roots[m].category) < MainRank(tree.roots[k].category)
        /\ LET items == GroupsUnder(DoneAndDiscarded)
           IN  \A u \in 1..Len(items) :
                  /\ items[u].category \in {Done, Discarded}
                  /\ \A v \in (u + 1)..Len(items) :
                        items[u].category = Done /\ items[v].category = Discarded

\* The task with a Discarded status was fetched before the one with a Done
\* status, and the Done group stands first in the last of two main groups.
C24_Witness ==
    /\ tree.loaded
    /\ Len(tree.roots) = 2
    /\ tree.roots[1].category = UnreleasedVersions
    /\ tree.roots[2].category = DoneAndDiscarded
    /\ Len(ItemsOf(2)) = 2
    /\ ItemsOf(2)[1].category = Done /\ ItemsOf(2)[1].tasks = <<3>>
    /\ ItemsOf(2)[2].category = Discarded /\ ItemsOf(2)[2].tasks = <<2>>

\* C25: no empty group is in the tree: every main group has at least one
\* group, and every group has at least one task.
C25_NoEmptyGroup ==
    tree.loaded =>
        \A m \in 1..Len(tree.roots) :
           /\ Len(ItemsOf(m)) >= 1
           /\ \A v \in 1..Len(ItemsOf(m)) : Len(ItemsOf(m)[v].tasks) >= 1

\* Two tasks with a Discarded status: the tree is one main group of one group;
\* the main groups and the Done group that would be empty are left out.
C25_Witness ==
    /\ tree.loaded
    /\ Len(fetched) = 2
    /\ Len(tree.roots) = 1
    /\ tree.roots[1].category = DoneAndDiscarded
    /\ Len(ItemsOf(1)) = 1
    /\ ItemsOf(1)[1].category = Discarded
    /\ ItemsOf(1)[1].tasks = <<1, 2>>

\* C26: categorizing leaves the task list it was given, and every field of
\* its tasks, as they were, and leaves the known identifiers and the timer of
\* the polling as they were.
C26_CategorizationIsPure ==
    [][(/\ ~tree.loaded
        /\ tree'.loaded
        /\ tree'.shown # "Failed to load JIRA tasks")
          => /\ fetched' = fetched
             /\ knownTaskIds' = knownTaskIds
             /\ timers' = timers
             /\ pollingInterval' = pollingInterval]_vars

\* Three tasks were categorized into the three main groups, and are still the
\* three tasks fetched.
C26_Witness ==
    /\ tree.loaded
    /\ Len(tree.roots) = 3
    /\ Len(fetched) = 3
    /\ AllTasks(AllItems(tree.roots)) \in {<<1, 2, 3>>, <<1, 3, 2>>, <<2, 1, 3>>,
                                           <<2, 3, 1>>, <<3, 1, 2>>, <<3, 2, 1>>}

\* C30: the release date of a Released or Unreleased group is that of the
\* first version of the first task, in the order fetched, put in the group;
\* the tasks put in it later, whatever their date, leave it as it is.
C30_GroupDateOfFirstTask ==
    tree.loaded =>
        LET items == AllItems(tree.roots)
        IN  \A g \in 1..Len(items) :
               items[g].category \in {Released, Unreleased} =>
                  LET first == items[g].tasks[1]
                  IN  /\ \A t \in 2..Len(items[g].tasks) : first < items[g].tasks[t]
                      /\ fetched[first].id = first
                      /\ items[g].releaseDate = fetched[first].fixVersions[1].releaseDate

\* A group of two tasks: the first has no date, the second has one, and the
\* group has none.
C30_Witness ==
    /\ tree.loaded
    /\ Len(fetched) = 2
    /\ Len(tree.roots) = 1
    /\ Len(ItemsOf(1)) = 1
    /\ ItemsOf(1)[1].tasks = <<1, 2>>
    /\ ItemsOf(1)[1].category = Released
    /\ ItemsOf(1)[1].releaseDate = 0
    /\ fetched[2].fixVersions[1].releaseDate = 2

\* C28: over the lifetime of the service, whatever the order of the ticks, the
\* returns of the fetches and the start and stop calls, every identifier was
\* passed to the callback at most once: not in two calls, and not twice in one
\* list, also when the response has it twice.
C28_ReportedAtMostOnce ==
    \A x \in Ids : reported[x] <= 1

\* After a stop and a start every identifier was passed once, the last one by
\* a tick whose response had it twice.
C28_Witness ==
    /\ \A x \in Ids : reported[x] = 1
    /\ stopKnown # {}
    /\ last.op = "tickOk"
    /\ Len(last.resp) = 2 /\ last.resp[1] = last.resp[2]
    /\ last.calls = <<<<last.resp[1]>>>>

C27_SwitchGatesPolling ==
    /\ [](last.op \in {"initDisabled", "initThrows"} /\ ~notificationsEnabled
             => timers = {} /\ pollingInterval = 0)
    /\ [][timers' \ timers # {} => notificationsEnabled']_vars

\* What holds of C27: a timer is started only with notifications enabled, and
\* a call of initializeNotificationSystem that returns with notifications
\* disabled leaves no timer active.
C27_StartedOnlyWhenEnabled ==
    /\ [](last.op = "initDisabled" => timers = {} /\ pollingInterval = 0)
    /\ [][timers' \ timers # {} => notificationsEnabled']_vars
====
